---- MODULE Spec2Model ----
(***************************************************************************)
(* cleanup_opengl.py: a line filter (process_file) that collapses          *)
(* #ifndef USE_VULKAN / #ifdef USE_VULKAN blocks with two depth counters,  *)
(* and a driver (clean_renderer_files) that walks the renderer tree and    *)
(* rewrites the files the filter changes.                                  *)
(*                                                                         *)
(* Text is modelled at word level: a line is a sequence of words, the last *)
(* of which is the terminator "\n"; a file's content is the concatenation  *)
(* of its lines.                                                           *)
(***************************************************************************)
EXTENDS Integers, Sequences, FiniteSets, TLC

VARIABLES
    fs,             \* the files on disk: path -> content (a flat sequence of words)
    filepath,       \* the argument of the running process_file call
    lines,          \* process_file: the lines read from the file
    i,              \* process_file: index of the next line (0-based, as in the code)
    skip_depth,     \* process_file: open discard regions
    keep_depth,     \* process_file: open retain regions
    output_lines,   \* process_file: the lines emitted so far
    pc,             \* position of the program
    emitted,        \* history: the 0-based input index of every emitted line
    pass,           \* history: how many times process_file has been called on the file
    walk_todo,      \* os.walk: the directories still to be yielded, next first
    files_to_process, \* clean_renderer_files: the candidate paths, in order
    next_file,      \* clean_renderer_files: how many candidates the loop has taken
    original_lines, \* clean_renderer_files: the lines read before filtering
    modified_count, \* clean_renderer_files: files overwritten so far
    console,        \* the lines printed so far
    reads,          \* history: the paths opened for reading
    writes          \* history: the paths opened for writing

filterVars == <<fs, filepath, lines, i, skip_depth, keep_depth, output_lines, pc,
                emitted, pass>>

driverVars == <<walk_todo, files_to_process, next_file, original_lines,
                modified_count, console, writes>>

vars == <<filterVars, driverVars, reads>>

----------------------------------------------------------------------------
(* Bounds *)

MaxLen == 6

\* The longest input of the runs checked for termination.
MaxFairLen == 4

----------------------------------------------------------------------------
(* Words and tokens *)

NL == "\n"

Whitespace == {" ", "\t", NL}

OpenDiscardToken == "#ifndef USE_VULKAN"
OpenRetainToken == "#ifdef USE_VULKAN"
ElseToken == "#else"
EndToken == "#endif"

\* The words of the model whose first character is '#'.
HashWords == {OpenDiscardToken, OpenRetainToken, ElseToken, EndToken, "#include"}

\* The lines an input file is made of.
\* (VkLine is a code line whose trailing comment mentions a token; it is no directive.)
VkLine == <<"\t", "vk_code();", " ", "//", EndToken, NL>>
IncludeLine == <<"#include", " ", "tr_local.h", NL>>
IfndefLine == <<OpenDiscardToken, NL>>
IfdefLine == <<" ", OpenRetainToken, " ", NL>>
ElseLine == <<ElseToken, NL>>
EndifLine == <<EndToken, " ", "//", "USE_VULKAN", NL>>

LineSet == {VkLine, IncludeLine, IfndefLine, IfdefLine, ElseLine, EndifLine}

BoundedSeq(S, n) == UNION {[1..k -> S] : k \in 0..n}

----------------------------------------------------------------------------
(* File text <-> lines *)

RECURSIVE ReadLinesAcc(_, _)
ReadLinesAcc(rest, cur) ==
    IF rest = <<>> THEN (IF cur = <<>> THEN <<>> ELSE <<cur>>)
    ELSE IF Head(rest) = NL THEN <<Append(cur, NL)>> \o ReadLinesAcc(Tail(rest), <<>>)
    ELSE ReadLinesAcc(Tail(rest), Append(cur, Head(rest)))

\* f.readlines(): the content split after every terminator.
ReadLines(content) == ReadLinesAcc(content, <<>>)

RECURSIVE WriteLines(_)
\* f.writelines(ls): the lines written one after the other.
WriteLines(ls) == IF ls = <<>> THEN <<>> ELSE Head(ls) \o WriteLines(Tail(ls))

----------------------------------------------------------------------------
(* str.strip, str.startswith, the `in` test *)

RECURSIVE LStrip(_)
LStrip(s) == IF s # <<>> /\ Head(s) \in Whitespace THEN LStrip(Tail(s)) ELSE s

RECURSIVE RStrip(_)
RStrip(s) ==
    IF s # <<>> /\ s[Len(s)] \in Whitespace THEN RStrip(SubSeq(s, 1, Len(s) - 1)) ELSE s

Strip(s) == RStrip(LStrip(s))

StartsWithHash(s) == s # <<>> /\ Head(s) \in HashWords

In(tok, s) == \E k \in 1..Len(s) : s[k] = tok

----------------------------------------------------------------------------
(* process_file: classification of a line (first match wins) *)

IsDirective(line) == StartsWithHash(Strip(line))

IsOpenDiscard(line) == IsDirective(line) /\ In(OpenDiscardToken, Strip(line))

IsOpenRetain(line) ==
    /\ IsDirective(line)
    /\ ~In(OpenDiscardToken, Strip(line))
    /\ In(OpenRetainToken, Strip(line))

\* (variant: the else clause taken without the "a block is open" test)
IsElseClause_Unguarded(line, sd, kd) ==
    /\ StartsWithHash(Strip(line))
    /\ ~In(OpenDiscardToken, Strip(line))
    /\ ~In(OpenRetainToken, Strip(line))
    /\ In(ElseToken, Strip(line))

IsElseClause(line, sd, kd) ==
    /\ IsDirective(line)
    /\ ~In(OpenDiscardToken, Strip(line))
    /\ ~In(OpenRetainToken, Strip(line))
    /\ In(ElseToken, Strip(line))
    /\ (sd > 0 \/ kd > 0)

\* (variant: the endif taken without the "a block is open" test)
IsEndif_Unguarded(line, sd, kd) ==
    /\ StartsWithHash(Strip(line))
    /\ ~In(OpenDiscardToken, Strip(line))
    /\ ~In(OpenRetainToken, Strip(line))
    /\ ~In(ElseToken, Strip(line))
    /\ In(EndToken, Strip(line))

IsEndif(line, sd, kd) ==
    /\ IsDirective(line)
    /\ ~In(OpenDiscardToken, Strip(line))
    /\ ~In(OpenRetainToken, Strip(line))
    /\ ~IsElseClause(line, sd, kd)
    /\ In(EndToken, Strip(line))
    /\ (sd > 0 \/ kd > 0)

\* (variant: an else clause that always turns a discard region into a retain region)
ElseCounters_OneWay(sd, kd) ==
    IF sd > 0 THEN <<sd - 1, kd + 1>> ELSE <<sd, kd>>

\* (variant: an else clause that closes the region instead of flipping it)
ElseCounters_NoFlip(sd, kd) ==
    IF sd > 0 THEN <<sd - 1, kd>>
    ELSE IF kd > 0 THEN <<sd, kd - 1>>
    ELSE <<sd, kd>>

\* (variant: the retain counter is tested first)
ElseCounters_KeepFirst(sd, kd) ==
    IF kd > 0 THEN <<sd + 1, kd - 1>>
    ELSE IF sd > 0 THEN <<sd - 1, kd + 1>>
    ELSE <<sd, kd>>

\* The counters <<skip_depth, keep_depth>> after an else clause.
ElseCounters(sd, kd) ==
    IF sd > 0 THEN <<sd - 1, kd + 1>>
    ELSE IF kd > 0 THEN <<sd + 1, kd - 1>>
    ELSE <<sd, kd>>

\* (variant: an endif always closes a discard region)
EndifCounters_SkipOnly(sd, kd) == <<sd - 1, kd>>

\* (variant: an endif closes retain regions only)
EndifCounters_RetainOnly(sd, kd) ==
    IF kd > 0 THEN <<sd, kd - 1>> ELSE <<sd, kd>>

\* The counters <<skip_depth, keep_depth>> after an endif.
EndifCounters(sd, kd) ==
    IF sd > 0 THEN <<sd - 1, kd>>
    ELSE IF kd > 0 THEN <<sd, kd - 1>>
    ELSE <<sd, kd>>

\* (variant: only the lines of a retain region are output)
ShouldOutput_InRetainOnly(sd, kd) == sd = 0 /\ kd > 0

\* "Output the line if we're not skipping", given the two counters.
ShouldOutput(sd, kd) == sd = 0

\* (variant: the stripped text is appended instead of the line)
OutputOf_Stripped(line) == Strip(line)

\* What output_lines.append(line) appends.
OutputOf(line) == line

RECURSIVE FilterFrom(_, _, _)
\* The lines the loop appends for the lines ls, entered with counters sd and kd.
FilterFrom(ls, sd, kd) ==
    IF ls = <<>> THEN <<>>
    ELSE LET l == Head(ls)  rest == Tail(ls) IN
         IF IsOpenDiscard(l) THEN FilterFrom(rest, sd + 1, kd)
         ELSE IF IsOpenRetain(l) THEN FilterFrom(rest, sd, kd + 1)
         ELSE IF IsElseClause(l, sd, kd)
              THEN FilterFrom(rest, ElseCounters(sd, kd)[1], ElseCounters(sd, kd)[2])
         ELSE IF IsEndif(l, sd, kd)
              THEN FilterFrom(rest, EndifCounters(sd, kd)[1], EndifCounters(sd, kd)[2])
         ELSE IF ShouldOutput(sd, kd) THEN <<OutputOf(l)>> \o FilterFrom(rest, sd, kd)
         ELSE FilterFrom(rest, sd, kd)

\* process_file as a function of the lines of the file.
FilterLines(ls) == FilterFrom(ls, 0, 0)

----------------------------------------------------------------------------
(* process_file: the actions *)

TheFile == <<<<"src">>, <<"engine">>, <<"renderer">>, <<"tr_main", ".c">>>>

\* The current line, lines[i].
line == lines[i + 1]

InLoop == pc = "loop" /\ i < Len(lines)

\* (variant: the counters are not set to 0 at the start of a pass)
ReadFile_NoReset ==
    /\ pc = "call"
    /\ lines' = ReadLines(fs[filepath])
    /\ output_lines' = <<>>
    /\ i' = 0
    /\ emitted' = <<>>
    /\ pc' = "loop"
    /\ reads' = reads \cup {filepath}
    /\ UNCHANGED <<fs, filepath, pass, skip_depth, keep_depth>>
    /\ UNCHANGED driverVars

ReadFile ==
    /\ pc = "call"
    /\ lines' = ReadLines(fs[filepath])
    /\ output_lines' = <<>>
    /\ skip_depth' = 0
    /\ keep_depth' = 0
    /\ i' = 0
    /\ emitted' = <<>>
    /\ pc' = "loop"
    /\ reads' = reads \cup {filepath}
    /\ UNCHANGED <<fs, filepath, pass>>
    /\ UNCHANGED driverVars

OpenDiscard ==
    /\ InLoop
    /\ IsOpenDiscard(line)
    /\ skip_depth' = skip_depth + 1
    /\ i' = i + 1
    /\ UNCHANGED <<fs, filepath, lines, keep_depth, output_lines, pc, emitted, pass>>
    /\ UNCHANGED <<driverVars, reads>>

\* (variant: the open-retain branch without its "continue")
OpenRetain_NoContinue ==
    /\ InLoop
    /\ IsOpenRetain(line)
    /\ keep_depth' = keep_depth + 1
    /\ IF skip_depth = 0
       THEN output_lines' = Append(output_lines, line) /\ emitted' = Append(emitted, i)
       ELSE UNCHANGED <<output_lines, emitted>>
    /\ i' = i + 1
    /\ UNCHANGED <<fs, filepath, lines, skip_depth, pc, pass>>
    /\ UNCHANGED <<driverVars, reads>>

OpenRetain ==
    /\ InLoop
    /\ IsOpenRetain(line)
    /\ keep_depth' = keep_depth + 1
    /\ i' = i + 1
    /\ UNCHANGED <<fs, filepath, lines, skip_depth, output_lines, pc, emitted, pass>>
    /\ UNCHANGED <<driverVars, reads>>

\* (variant: the else branch without its "i += 1")
ElseClause_NoAdvance ==
    /\ InLoop
    /\ IsElseClause(line, skip_depth, keep_depth)
    /\ skip_depth' = ElseCounters(skip_depth, keep_depth)[1]
    /\ keep_depth' = ElseCounters(skip_depth, keep_depth)[2]
    /\ UNCHANGED <<fs, filepath, lines, i, output_lines, pc, emitted, pass>>
    /\ UNCHANGED <<driverVars, reads>>

ElseClause ==
    /\ InLoop
    /\ IsElseClause(line, skip_depth, keep_depth)
    /\ skip_depth' = ElseCounters(skip_depth, keep_depth)[1]
    /\ keep_depth' = ElseCounters(skip_depth, keep_depth)[2]
    /\ i' = i + 1
    /\ UNCHANGED <<fs, filepath, lines, output_lines, pc, emitted, pass>>
    /\ UNCHANGED <<driverVars, reads>>

Endif ==
    /\ InLoop
    /\ IsEndif(line, skip_depth, keep_depth)
    /\ skip_depth' = EndifCounters(skip_depth, keep_depth)[1]
    /\ keep_depth' = EndifCounters(skip_depth, keep_depth)[2]
    /\ i' = i + 1
    /\ UNCHANGED <<fs, filepath, lines, output_lines, pc, emitted, pass>>
    /\ UNCHANGED <<driverVars, reads>>

\* The fall-through: any line no branch above consumed.
FallsThrough ==
    /\ ~IsOpenDiscard(line)
    /\ ~IsOpenRetain(line)
    /\ ~IsElseClause(line, skip_depth, keep_depth)
    /\ ~IsEndif(line, skip_depth, keep_depth)

OutputLine ==
    /\ InLoop
    /\ FallsThrough
    /\ ShouldOutput(skip_depth, keep_depth)
    /\ output_lines' = Append(output_lines, OutputOf(line))
    /\ emitted' = Append(emitted, i)
    /\ i' = i + 1
    /\ UNCHANGED <<fs, filepath, lines, skip_depth, keep_depth, pc, pass>>
    /\ UNCHANGED <<driverVars, reads>>

SkipLine ==
    /\ InLoop
    /\ FallsThrough
    /\ ~ShouldOutput(skip_depth, keep_depth)
    /\ i' = i + 1
    /\ UNCHANGED <<fs, filepath, lines, skip_depth, keep_depth, output_lines, pc,
                   emitted, pass>>
    /\ UNCHANGED <<driverVars, reads>>

Return ==
    /\ pc = "loop"
    /\ i >= Len(lines)
    /\ pc' = "returned"
    /\ UNCHANGED <<fs, filepath, lines, i, skip_depth, keep_depth, output_lines,
                   emitted, pass>>
    /\ UNCHANGED <<driverVars, reads>>

\* (variant: every processed file is written)
Changed_Always(processed, original) == TRUE

\* "Only write if changed"
Changed(processed, original) == processed # original

\* The filtered lines are written back as the driver does, and the filter is run
\* on the file again.
Refilter ==
    /\ pc = "returned"
    /\ pass = 1
    /\ IF Changed(output_lines, lines)
       THEN /\ fs' = [fs EXCEPT ![filepath] = WriteLines(output_lines)]
            /\ writes' = writes \cup {filepath}
       ELSE UNCHANGED <<fs, writes>>
    /\ pass' = 2
    /\ pc' = "call"
    /\ UNCHANGED <<filepath, lines, i, skip_depth, keep_depth, output_lines, emitted>>
    /\ UNCHANGED <<walk_todo, files_to_process, next_file, original_lines,
                   modified_count, console, reads>>

\* process_file is called on a file of at most n lines.
InitOf(n) ==
    /\ \E ls \in BoundedSeq(LineSet, n) : fs = [p \in {TheFile} |-> WriteLines(ls)]
    /\ filepath = TheFile
    /\ lines = <<>>
    /\ i = 0
    /\ skip_depth = 0
    /\ keep_depth = 0
    /\ output_lines = <<>>
    /\ emitted = <<>>
    /\ pc = "call"
    /\ pass = 1
    /\ walk_todo = <<>>
    /\ files_to_process = <<TheFile>>
    /\ next_file = 1
    /\ original_lines = <<>>
    /\ modified_count = 0
    /\ console = <<>>
    /\ reads = {}
    /\ writes = {}

Init == InitOf(MaxLen)

Next ==
    \/ ReadFile
    \/ OpenDiscard
    \/ OpenRetain
    \/ ElseClause
    \/ Endif
    \/ OutputLine
    \/ SkipLine
    \/ Return
    \/ Refilter

Spec == Init /\ [][Next]_vars

\* The interpreter keeps executing the program: a step that can be taken is taken.
FairSpec == InitOf(MaxFairLen) /\ [][Next]_vars /\ WF_vars(Next)

----------------------------------------------------------------------------
(* clean_renderer_files: the tree walk and the rewrite loop.                *)
(* A path is a sequence of names and a name a sequence of parts, so that    *)
(* "'vulkan' in root" and "file.endswith(('.c', '.h'))" are tests on parts. *)

ExclusionToken == "vulkan"

CandidateExtensions == {".c", ".h"}

\* os.path.join(base_path, 'src', 'engine', 'renderer'), below the fixed base path.
RendererPath == <<<<"src">>, <<"engine">>, <<"renderer">>>>

\* The renderer tree: every directory with its sub-directory and file names.
Tree ==
    LET R == RendererPath IN
    (R :> [dirs |-> {<<"vulkan">>, <<"common">>},
           files |-> {<<"tr_main", ".c">>, <<"tr_local", ".h">>, <<"notes", ".txt">>}])
    @@ (Append(R, <<"vulkan">>) :>
          [dirs |-> {<<"shaders">>}, files |-> {<<"vk", ".c">>}])
    @@ (R \o <<<<"vulkan">>, <<"shaders">>>> :>
          [dirs |-> {}, files |-> {<<"gen", ".h">>}])
    @@ (Append(R, <<"common">>) :>
          [dirs |-> {<<"Vulkan">>}, files |-> {<<"vulkan", "_util", ".c">>}])
    @@ (R \o <<<<"common">>, <<"Vulkan">>>> :>
          [dirs |-> {}, files |-> {<<"compat", ".h">>}])

AllFiles == UNION {{Append(d, f) : f \in Tree[d].files} : d \in DOMAIN Tree}

\* The orders in which a directory listing can come.
Orderings(S) ==
    {o \in [1..Cardinality(S) -> S] : \A j, k \in 1..Cardinality(S) : j # k => o[j] # o[k]}

\* (variant: only the directory's own name is tested)
InRoot_BasenameOnly(tok, root) == In(tok, root[Len(root)])

\* tok in root: some name of the path holds the token.
InRoot(tok, root) == \E k \in 1..Len(root) : In(tok, root[k])

\* file.endswith(exts)
EndsWith(file, exts) == file # <<>> /\ file[Len(file)] \in exts

RECURSIVE CandidatesIn(_, _)
\* The inner loop over one directory's files, in listing order.
CandidatesIn(root, files) ==
    IF files = <<>> THEN <<>>
    ELSE (IF EndsWith(Head(files), CandidateExtensions)
          THEN <<Append(root, Head(files))>> ELSE <<>>)
         \o CandidatesIn(root, Tail(files))

Joined(root, names) == [k \in 1..Len(names) |-> Append(root, names[k])]

\* One directory yielded by os.walk, top-down: its sub-directories come next.
WalkSkipExcluded ==
    /\ pc = "walk"
    /\ walk_todo # <<>>
    /\ LET root == Head(walk_todo) IN
          /\ InRoot(ExclusionToken, root)
          /\ \E dirs \in Orderings(Tree[root].dirs) :
                walk_todo' = Joined(root, dirs) \o Tail(walk_todo)
    /\ UNCHANGED <<files_to_process, next_file, original_lines, modified_count,
                   console, reads, writes>>
    /\ UNCHANGED filterVars

WalkCollect ==
    /\ pc = "walk"
    /\ walk_todo # <<>>
    /\ LET root == Head(walk_todo) IN
          /\ ~InRoot(ExclusionToken, root)
          /\ \E dirs \in Orderings(Tree[root].dirs) :
                walk_todo' = Joined(root, dirs) \o Tail(walk_todo)
          /\ \E files \in Orderings(Tree[root].files) :
                files_to_process' = files_to_process \o CandidatesIn(root, files)
    /\ UNCHANGED <<next_file, original_lines, modified_count, console, reads, writes>>
    /\ UNCHANGED filterVars

Found(n) == [event |-> "found", count |-> n]
Modified(path) == [event |-> "modified", path |-> path]
Summary(n) == [event |-> "summary", count |-> n]
Complete == [event |-> "complete"]

PrintFound ==
    /\ pc = "walk"
    /\ walk_todo = <<>>
    /\ console' = Append(console, Found(Len(files_to_process)))
    /\ modified_count' = 0
    /\ next_file' = 0
    /\ pc' = "for"
    /\ UNCHANGED <<fs, filepath, lines, i, skip_depth, keep_depth, output_lines,
                   emitted, pass>>
    /\ UNCHANGED <<walk_todo, files_to_process, original_lines, reads, writes>>

\* The loop takes the next candidate, reads its lines and calls process_file.
ReadOriginal ==
    /\ pc = "for"
    /\ next_file < Len(files_to_process)
    /\ filepath' = files_to_process[next_file + 1]
    /\ next_file' = next_file + 1
    /\ original_lines' = ReadLines(fs[filepath'])
    /\ reads' = reads \cup {filepath'}
    /\ pc' = "call"
    /\ UNCHANGED <<fs, lines, i, skip_depth, keep_depth, output_lines, emitted, pass>>
    /\ UNCHANGED <<walk_todo, files_to_process, modified_count, console, writes>>

\* process_file has returned processed_lines (output_lines) and they differ.
WriteModified ==
    /\ pc = "returned"
    /\ Changed(output_lines, original_lines)
    /\ fs' = [fs EXCEPT ![filepath] = WriteLines(output_lines)]
    /\ writes' = writes \cup {filepath}
    /\ console' = Append(console, Modified(filepath))
    /\ modified_count' = modified_count + 1
    /\ pc' = "for"
    /\ UNCHANGED <<filepath, lines, i, skip_depth, keep_depth, output_lines,
                   emitted, pass>>
    /\ UNCHANGED <<walk_todo, files_to_process, next_file, original_lines, reads>>

LeaveUntouched ==
    /\ pc = "returned"
    /\ ~Changed(output_lines, original_lines)
    /\ pc' = "for"
    /\ UNCHANGED <<fs, filepath, lines, i, skip_depth, keep_depth, output_lines,
                   emitted, pass>>
    /\ UNCHANGED <<driverVars, reads>>

\* (variant: the summary counts the files processed)
PrintSummary_CountsProcessed ==
    /\ pc = "for"
    /\ next_file >= Len(files_to_process)
    /\ console' = console \o <<Summary(next_file), Complete>>
    /\ pc' = "done"
    /\ UNCHANGED <<fs, filepath, lines, i, skip_depth, keep_depth, output_lines,
                   emitted, pass>>
    /\ UNCHANGED <<walk_todo, files_to_process, next_file, original_lines,
                   modified_count, reads, writes>>

PrintSummary ==
    /\ pc = "for"
    /\ next_file >= Len(files_to_process)
    /\ console' = console \o <<Summary(modified_count), Complete>>
    /\ pc' = "done"
    /\ UNCHANGED <<fs, filepath, lines, i, skip_depth, keep_depth, output_lines,
                   emitted, pass>>
    /\ UNCHANGED <<walk_todo, files_to_process, next_file, original_lines,
                   modified_count, reads, writes>>

\* File contents for the driver runs.
UnchangedContent == WriteLines(<<VkLine, IncludeLine>>)
ScenarioAContent == WriteLines(<<IfndefLine, IncludeLine, ElseLine, VkLine, EndifLine>>)
StrayEndContent == WriteLines(<<VkLine, EndifLine>>)
UnclosedContent == WriteLines(<<VkLine, IfndefLine, VkLine>>)
\* (the last line has no terminator)
UnterminatedContent == WriteLines(<<IfdefLine, VkLine, EndifLine>>) \o <<"}">>

SampleContents ==
    {UnchangedContent, ScenarioAContent, StrayEndContent, UnclosedContent,
     UnterminatedContent}

\* The files whose content the driver runs vary; every other file holds Scenario A.
VariedFiles ==
    {Append(RendererPath, <<"tr_main", ".c">>),
     Append(RendererPath, <<"tr_local", ".h">>),
     RendererPath \o <<<<"common">>, <<"vulkan", "_util", ".c">>>>,
     RendererPath \o <<<<"common">>, <<"Vulkan">>, <<"compat", ".h">>>>}

NoFile == <<>>

DriverInit ==
    /\ fs \in [AllFiles -> SampleContents]
    /\ \A p \in AllFiles \ VariedFiles : fs[p] = ScenarioAContent
    /\ fs[Append(RendererPath, <<"tr_local", ".h">>)] \in {UnchangedContent, ScenarioAContent}
    /\ filepath = NoFile
    /\ lines = <<>>
    /\ i = 0
    /\ skip_depth = 0
    /\ keep_depth = 0
    /\ output_lines = <<>>
    /\ emitted = <<>>
    /\ pass = 1
    /\ pc = "walk"
    /\ walk_todo = <<RendererPath>>
    /\ files_to_process = <<>>
    /\ next_file = 0
    /\ original_lines = <<>>
    /\ modified_count = 0
    /\ console = <<>>
    /\ reads = {}
    /\ writes = {}

DriverNext ==
    \/ WalkSkipExcluded
    \/ WalkCollect
    \/ PrintFound
    \/ ReadOriginal
    \/ ReadFile
    \/ OpenDiscard
    \/ OpenRetain
    \/ ElseClause
    \/ Endif
    \/ OutputLine
    \/ SkipLine
    \/ Return
    \/ WriteModified
    \/ LeaveUntouched
    \/ PrintSummary

DriverSpec == DriverInit /\ [][DriverNext]_vars

----------------------------------------------------------------------------
(* Filesystem failures: an open or a write raises, nothing catches it, and  *)
(* the interpreter prints the traceback and exits.                          *)

Traceback(path) == [event |-> "traceback", path |-> path]

\* (variant: the failure of one file is reported and the loop goes on)
ReadOriginalFails_Isolated ==
    /\ pc = "for"
    /\ next_file < Len(files_to_process)
    /\ filepath' = files_to_process[next_file + 1]
    /\ next_file' = next_file + 1
    /\ console' = Append(console, Traceback(filepath'))
    /\ pc' = "for"
    /\ UNCHANGED <<fs, lines, i, skip_depth, keep_depth, output_lines, emitted, pass>>
    /\ UNCHANGED <<walk_todo, files_to_process, original_lines, modified_count,
                   reads, writes>>

\* The driver's open(filepath, 'r') raises.
ReadOriginalFails ==
    /\ pc = "for"
    /\ next_file < Len(files_to_process)
    /\ filepath' = files_to_process[next_file + 1]
    /\ next_file' = next_file + 1
    /\ console' = Append(console, Traceback(filepath'))
    /\ pc' = "aborted"
    /\ UNCHANGED <<fs, lines, i, skip_depth, keep_depth, output_lines, emitted, pass>>
    /\ UNCHANGED <<walk_todo, files_to_process, original_lines, modified_count,
                   reads, writes>>

\* process_file's open(filepath, 'r') raises.
ReadFileFails ==
    /\ pc = "call"
    /\ console' = Append(console, Traceback(filepath))
    /\ pc' = "aborted"
    /\ UNCHANGED <<fs, filepath, lines, i, skip_depth, keep_depth, output_lines,
                   emitted, pass>>
    /\ UNCHANGED <<walk_todo, files_to_process, next_file, original_lines,
                   modified_count, reads, writes>>

\* open(filepath, 'w') raises and the file is as it was, or the write raises
\* after the file was truncated and some of the lines were written.
WriteFails ==
    /\ pc = "returned"
    /\ Changed(output_lines, original_lines)
    /\ \/ UNCHANGED <<fs, writes>>
       \/ /\ \E k \in 0..(Len(output_lines) - 1) :
                fs' = [fs EXCEPT ![filepath] = WriteLines(SubSeq(output_lines, 1, k))]
          /\ writes' = writes \cup {filepath}
    /\ console' = Append(console, Traceback(filepath))
    /\ pc' = "aborted"
    /\ UNCHANGED <<filepath, lines, i, skip_depth, keep_depth, output_lines,
                   emitted, pass>>
    /\ UNCHANGED <<walk_todo, files_to_process, next_file, original_lines,
                   modified_count, reads>>

FaultyNext ==
    \/ DriverNext
    \/ ReadOriginalFails
    \/ ReadFileFails
    \/ WriteFails

FaultySpec == DriverInit /\ [][FaultyNext]_vars

----------------------------------------------------------------------------
(* The block structure of an input, by a stack of the open blocks.  This is *)
(* the reference the filter's counters are compared with.                   *)

\* The directive class of a line by its tokens alone (first match wins).
Kind(l) ==
    IF ~StartsWithHash(Strip(l)) THEN "other"
    ELSE IF In(OpenDiscardToken, Strip(l)) THEN "open_discard"
    ELSE IF In(OpenRetainToken, Strip(l)) THEN "open_retain"
    ELSE IF In(ElseToken, Strip(l)) THEN "else"
    ELSE IF In(EndToken, Strip(l)) THEN "end"
    ELSE "other"

\* One open block: the directive that opened it and whether its else was seen.
Block(open, flipped) == [open |-> open, flipped |-> flipped]

\* A block's current polarity: an open-discard block discards before its else
\* and retains after it, an open-retain block the other way round.
Discards(b) == (b.open = "open_discard") # b.flipped

RefStep(stack, l) ==
    CASE Kind(l) = "open_discard" -> Append(stack, Block("open_discard", FALSE))
      [] Kind(l) = "open_retain" -> Append(stack, Block("open_retain", FALSE))
      [] Kind(l) = "else" /\ stack # <<>> ->
            [stack EXCEPT ![Len(stack)] = Block(stack[Len(stack)].open, TRUE)]
      [] Kind(l) = "end" /\ stack # <<>> -> SubSeq(stack, 1, Len(stack) - 1)
      [] OTHER -> stack

RECURSIVE RefStack(_, _)
\* The open blocks when the line of 0-based index n is reached.
RefStack(ls, n) == IF n = 0 THEN <<>> ELSE RefStep(RefStack(ls, n - 1), ls[n])

\* The line of index n is a region-control directive the block structure consumes.
Consumed(ls, n) ==
    \/ Kind(ls[n + 1]) \in {"open_discard", "open_retain"}
    \/ Kind(ls[n + 1]) \in {"else", "end"} /\ RefStack(ls, n) # <<>>

InDiscardRegion(stack) == \E k \in 1..Len(stack) : Discards(stack[k])

\* Every block is closed, and no block has two else clauses.
Balanced(ls) ==
    /\ RefStack(ls, Len(ls)) = <<>>
    /\ \A n \in 0..(Len(ls) - 1) :
          (Kind(ls[n + 1]) = "else" /\ RefStack(ls, n) # <<>>)
              => ~RefStack(ls, n)[Len(RefStack(ls, n))].flipped

NonNested(ls) == \A n \in 0..Len(ls) : Len(RefStack(ls, n)) <= 1

RECURSIVE Collapse(_, _, _)
\* A non-nested input with the directive lines removed and one polarity's body
\* kept.  open: "none" or the directive of the open block; afterElse: its else
\* was passed.
Collapse(ls, open, afterElse) ==
    IF ls = <<>> THEN <<>>
    ELSE LET l == Head(ls)  k == Kind(l)  rest == Tail(ls) IN
         IF open = "none"
         THEN IF k \in {"open_discard", "open_retain"}
              THEN Collapse(rest, k, FALSE)
              ELSE <<l>> \o Collapse(rest, "none", FALSE)
         ELSE IF k = "else" THEN Collapse(rest, open, TRUE)
         ELSE IF k = "end" THEN Collapse(rest, "none", FALSE)
         ELSE IF (open = "open_discard") = afterElse
              THEN <<l>> \o Collapse(rest, open, afterElse)
              ELSE Collapse(rest, open, afterElse)

Running == pc \in {"loop", "returned"}

----------------------------------------------------------------------------
(* C1: the output of process_file is an ordered subsequence of its input:  *)
(* every output line is the input line at the recorded position, taken     *)
(* unchanged, the positions are strictly increasing (same order, no        *)
(* position twice) and lie below the index reached (nothing inserted).     *)
C1_OrderedSubsequence ==
    Running =>
        /\ Len(emitted) = Len(output_lines)
        /\ \A k \in 1..Len(output_lines) :
              /\ emitted[k] \in 0..(i - 1)
              /\ emitted[k] < Len(lines)
              /\ output_lines[k] = lines[emitted[k] + 1]
        /\ \A j, k \in 1..Len(emitted) : j < k => emitted[j] < emitted[k]

C1_Witness ==
    /\ pc = "returned"
    /\ pass = 1
    /\ Len(output_lines) >= 2
    /\ Len(output_lines) < Len(lines)
    /\ output_lines[1] # output_lines[2]

(* C2: for an input of ordinary lines and balanced, non-nested blocks the   *)
(* returned output is the input with the open/else/end lines removed and    *)
(* one body kept: of an #ifndef USE_VULKAN block the body after the else,   *)
(* of an #ifdef USE_VULKAN block the body before the else.                  *)
C2_NonNestedCollapse ==
    (pc = "returned" /\ pass = 1 /\ Balanced(lines) /\ NonNested(lines))
        => output_lines = Collapse(lines, "none", FALSE)

\* Scenario A: an open-discard block with an else; only the body after the else is kept.
C2_Witness ==
    /\ pc = "returned"
    /\ pass = 1
    /\ lines = <<IfndefLine, IncludeLine, ElseLine, VkLine, EndifLine>>
    /\ output_lines = <<VkLine>>

(* C3: for a balanced, properly nested input a line that is no consumed     *)
(* region-control directive is emitted iff the stack of open blocks holds   *)
(* no discarding block when the line is reached, and at such a line the     *)
(* test skip_depth == 0 agrees with the stack.                              *)
C3_CounterAgreesWithStack ==
    (Running /\ pass = 1 /\ Balanced(lines)) =>
        /\ \A n \in 0..(i - 1) :
              ~Consumed(lines, n) =>
                  ((\E k \in 1..Len(emitted) : emitted[k] = n)
                      <=> ~InDiscardRegion(RefStack(lines, n)))
        /\ (i < Len(lines) /\ ~Consumed(lines, i)) =>
              ((skip_depth = 0) <=> ~InDiscardRegion(RefStack(lines, i)))

(* C4: the filter is idempotent: run on its own output, the filter keeps    *)
(* both counters at 0, emits every line it reads, and returns its input.    *)
C4_Idempotent ==
    (Running /\ pass = 2) =>
        /\ skip_depth = 0
        /\ keep_depth = 0
        /\ output_lines = SubSeq(lines, 1, i)
        /\ pc = "returned" => output_lines = lines

\* The second pass has returned on an output that still holds a stray #else and #endif.
C4_Witness ==
    /\ pc = "returned"
    /\ pass = 2
    /\ Len(lines) >= 3
    /\ \E k \in 1..Len(lines) : lines[k] = EndifLine
    /\ \E k \in 1..Len(lines) : lines[k] = ElseLine

(* C5: a line reached with both counters 0 that is no open-discard and no   *)
(* open-retain directive is appended to the output unchanged, and an input  *)
(* without any directive is returned as it is.                              *)
C5_OutsideBlockStep ==
    /\ (InLoop /\ skip_depth = 0 /\ keep_depth = 0
            /\ ~IsOpenDiscard(line) /\ ~IsOpenRetain(line))
          => (output_lines' = Append(output_lines, line) /\ i' = i + 1)
    /\ (pc = "loop" /\ pc' = "returned"
            /\ \A k \in 1..Len(lines) : ~IsDirective(lines[k]))
          => output_lines' = lines

C5_OutsideBlockVerbatim == [][C5_OutsideBlockStep]_vars

\* A line after a closed block has just been emitted with both counters 0.
C5_Witness ==
    /\ pc = "loop"
    /\ pass = 1
    /\ i >= 4
    /\ skip_depth = 0
    /\ keep_depth = 0
    /\ \E n \in 1..(i - 2) : Kind(lines[n]) \in {"open_discard", "open_retain"}
    /\ emitted # <<>>
    /\ emitted[Len(emitted)] = i - 1
    /\ output_lines[Len(output_lines)] = lines[i]

(* C6: in a balanced input, a line of the body of a retain block that is    *)
(* nested directly in the discarding part of a discard block is never in    *)
(* the output.                                                              *)
C6_NestedRetainDiscarded ==
    (Running /\ pass = 1 /\ Balanced(lines)) =>
        \A n \in 0..(i - 1) :
            LET st == RefStack(lines, n) IN
            (/\ ~Consumed(lines, n)
             /\ Len(st) >= 2
             /\ st[Len(st)].open = "open_retain"
             /\ st[Len(st) - 1].open = "open_discard"
             /\ Discards(st[Len(st) - 1]))
                => ~(\E k \in 1..Len(emitted) : emitted[k] = n)

(* C7: an else or end directive line met with both counters 0 is appended   *)
(* to the output unmodified and both counters stay 0.                       *)
C7_StrayStep ==
    (InLoop /\ skip_depth = 0 /\ keep_depth = 0 /\ Kind(line) \in {"else", "end"})
        => /\ output_lines' = Append(output_lines, line)
           /\ skip_depth' = 0
           /\ keep_depth' = 0

C7_StrayElseEndPassThrough == [][C7_StrayStep]_vars

\* A stray #else has just been emitted after a block was closed.
C7_Witness ==
    /\ pc = "loop"
    /\ pass = 1
    /\ i >= 3
    /\ skip_depth = 0
    /\ keep_depth = 0
    /\ Kind(lines[i]) = "else"
    /\ Kind(lines[1]) = "open_retain"
    /\ output_lines # <<>>
    /\ output_lines[Len(output_lines)] = ElseLine

(* C8: a region-control directive line is never emitted: an open-discard    *)
(* line, an open-retain line, and an else or end line met while a counter   *)
(* is nonzero leave the output as it is, so the output holds no open        *)
(* directive at all.                                                        *)
C8_DirectiveStep ==
    (InLoop /\ (\/ Kind(line) \in {"open_discard", "open_retain"}
                \/ (Kind(line) \in {"else", "end"}
                        /\ (skip_depth > 0 \/ keep_depth > 0))))
        => /\ output_lines' = output_lines
           /\ i' = i + 1

C8_DirectivesNeverEmitted == [][C8_DirectiveStep]_vars

\* Inside a retain region (skip_depth == 0) an open-retain line and an end
\* line were consumed without being emitted.
C8_Witness ==
    /\ pc = "loop"
    /\ pass = 1
    /\ i = 4
    /\ Kind(lines[1]) = "open_retain"
    /\ Kind(lines[2]) = "other"
    /\ Kind(lines[3]) = "open_retain"
    /\ Kind(lines[4]) = "end"
    /\ skip_depth = 0
    /\ keep_depth = 1
    /\ Len(output_lines) = 1

----------------------------------------------------------------------------
(* Candidate files, by the place of a file in the tree.                     *)

\* Some directory above the file has the exclusion token in its name.
InExcludedSubtree(p) ==
    \E k \in 1..(Len(p) - 1) : \E j \in 1..Len(p[k]) : p[k][j] = "vulkan"

HasCandidateExtension(p) == p[Len(p)][Len(p[Len(p)])] \in {".c", ".h"}

IsCandidate(p) == p \in AllFiles /\ HasCandidateExtension(p) /\ ~InExcludedSubtree(p)

Listed == {files_to_process[k] : k \in 1..Len(files_to_process)}

(* C9: when process_file has returned for a candidate, the driver writes    *)
(* the file iff the filtered lines differ from the original lines: if they  *)
(* are equal nothing on disk changes and nothing is printed or counted; if  *)
(* they differ the file then reads back as exactly the filtered lines, the  *)
(* path is printed as modified and counted.  No other step writes a file,   *)
(* and no file that is not a candidate is ever written.                     *)
C9_WriteStep ==
    /\ pc = "returned" => original_lines = ReadLines(fs[filepath])
    /\ (pc = "returned" /\ output_lines = original_lines)
          => /\ fs' = fs
             /\ writes' = writes
             /\ console' = console
             /\ modified_count' = modified_count
    /\ (pc = "returned" /\ output_lines # original_lines)
          => /\ ReadLines(fs'[filepath]) = output_lines
             /\ filepath \in writes'
             /\ console' = Append(console, Modified(filepath))
             /\ modified_count' = modified_count + 1
    /\ \A p \in DOMAIN fs :
          (fs'[p] # fs[p] \/ (p \in writes' /\ p \notin writes))
              => (pc = "returned" /\ p = filepath /\ IsCandidate(p))

C9_WriteIffChanged == [][C9_WriteStep]_vars

\* A run has ended in which some candidates were rewritten, one of them to a
\* text whose last line has no terminator, and some were left untouched.
C9_Witness ==
    /\ pc = "done"
    /\ Len(files_to_process) = 4
    /\ Cardinality(writes) = 2
    /\ modified_count = 2
    /\ \E p \in writes : fs[p] = WriteLines(<<VkLine>>) \o <<"}">>

(* C10: no file of the excluded subtree is ever listed as a candidate, read *)
(* or written, and once the walk is over every file with a candidate        *)
(* extension outside the excluded subtree is listed.                        *)
C10_ExcludedSubtreeUntouched ==
    /\ \A p \in Listed : IsCandidate(p)
    /\ \A p \in reads \cup writes : p \in AllFiles /\ ~InExcludedSubtree(p)
    /\ \A p \in AllFiles : InExcludedSubtree(p) => fs[p] = ScenarioAContent
    /\ pc # "walk" => \A p \in AllFiles : IsCandidate(p) => p \in Listed

\* The run has ended with files rewritten, and the excluded vk.c and gen.h,
\* which the filter would change, are neither listed nor read.
C10_Witness ==
    /\ pc = "done"
    /\ writes # {}
    /\ Cardinality(Listed) = 4
    /\ \E p \in AllFiles :
          /\ InExcludedSubtree(p)
          /\ HasCandidateExtension(p)
          /\ Len(p) = Len(RendererPath) + 3
          /\ p \notin reads

----------------------------------------------------------------------------
(* C12: skip_depth and keep_depth are never negative, whatever the input,   *)
(* and a step lowers a counter only from a value greater than 0.            *)
C12_Step ==
    /\ (pc = "loop" /\ skip_depth' < skip_depth)
          => (skip_depth > 0 /\ skip_depth' = skip_depth - 1)
    /\ (pc = "loop" /\ keep_depth' < keep_depth)
          => (keep_depth > 0 /\ keep_depth' = keep_depth - 1)
    /\ skip_depth' >= 0
    /\ keep_depth' >= 0

C12_CountersNonNegative ==
    /\ [](skip_depth >= 0 /\ keep_depth >= 0)
    /\ [][C12_Step]_vars

\* More ends than opens: the second #endif came with both counters at 0.
C12_Witness ==
    /\ pc = "loop"
    /\ pass = 1
    /\ i = 4
    /\ Kind(lines[1]) = "open_retain"
    /\ Kind(lines[2]) = "end"
    /\ Kind(lines[3]) = "else"
    /\ Kind(lines[4]) = "end"
    /\ skip_depth = 0
    /\ keep_depth = 0

(* C13: when the pass over a balanced input (every block closed by its own  *)
(* end, at most one else per block, any nesting) has returned, both         *)
(* counters are 0.                                                          *)
C13_BalancedEndsAtZero ==
    (pc = "returned" /\ pass = 1 /\ Balanced(lines))
        => (skip_depth = 0 /\ keep_depth = 0)

\* A balanced input with a block nested in a block with an else has returned.
C13_Witness ==
    /\ pc = "returned"
    /\ pass = 1
    /\ Balanced(lines)
    /\ \E n \in 1..Len(lines) : Len(RefStack(lines, n)) = 2
    /\ \E n \in 1..Len(lines) : Kind(lines[n]) = "else" /\ RefStack(lines, n - 1) # <<>>
    /\ skip_depth = 0
    /\ keep_depth = 0

\* The open blocks of the stack that discard, and those that retain.
DiscardDepth(stack) == Cardinality({k \in 1..Len(stack) : Discards(stack[k])})
RetainDepth(stack) == Cardinality({k \in 1..Len(stack) : ~Discards(stack[k])})

(* C14: during the pass over a balanced, properly nested input, skip_depth  *)
(* is the number of open blocks of the stack whose polarity is discard and  *)
(* keep_depth the number whose polarity is retain.                          *)
C14_CountersMatchStack ==
    (Running /\ pass = 1 /\ Balanced(lines)) =>
        /\ skip_depth = DiscardDepth(RefStack(lines, i))
        /\ keep_depth = RetainDepth(RefStack(lines, i))

(* C15: an else or end directive met with both counters nonzero acts on     *)
(* skip_depth: the else lowers skip_depth and raises keep_depth, the end    *)
(* lowers skip_depth and leaves keep_depth; an else or end lowers           *)
(* keep_depth only when skip_depth is 0.                                    *)
C15_Step ==
    /\ (InLoop /\ skip_depth > 0 /\ keep_depth > 0 /\ Kind(line) = "else")
          => (skip_depth' = skip_depth - 1 /\ keep_depth' = keep_depth + 1)
    /\ (InLoop /\ skip_depth > 0 /\ keep_depth > 0 /\ Kind(line) = "end")
          => (skip_depth' = skip_depth - 1 /\ keep_depth' = keep_depth)
    /\ (InLoop /\ keep_depth' < keep_depth)
          => (skip_depth = 0 /\ Kind(line) \in {"else", "end"})

C15_DiscardFirst == [][C15_Step]_vars

\* An #else met with counters (1, 1) has made them (0, 2).
C15_Witness ==
    /\ pc = "loop"
    /\ pass = 1
    /\ i = 3
    /\ Kind(lines[1]) = "open_discard"
    /\ Kind(lines[2]) = "open_retain"
    /\ Kind(lines[3]) = "else"
    /\ skip_depth = 0
    /\ keep_depth = 2

----------------------------------------------------------------------------
(* The conservation law of the two counters, counted from the lines alone.  *)

RECURSIVE RunningSum(_, _)
\* The number of blocks open after the first n lines: an open directive adds
\* one, an end directive takes one away while any is open.
RunningSum(ls, n) ==
    IF n = 0 THEN 0
    ELSE LET before == RunningSum(ls, n - 1) IN
         IF Kind(ls[n]) \in {"open_discard", "open_retain"} THEN before + 1
         ELSE IF Kind(ls[n]) = "end" /\ before > 0 THEN before - 1
         ELSE before

OpensSeen(ls, n) ==
    Cardinality({m \in 1..n : Kind(ls[m]) \in {"open_discard", "open_retain"}})

EndsCounted(ls, n) ==
    Cardinality({m \in 1..n : Kind(ls[m]) = "end" /\ RunningSum(ls, m - 1) > 0})

(* C19: at every step of a pass skip_depth + keep_depth is the number of    *)
(* open directives seen so far less the number of end directives seen so    *)
(* far while the sum was nonzero; an else directive leaves the sum as it    *)
(* is, and a line that is no directive, or a directive with no recognized   *)
(* token, changes neither counter.                                          *)
C19_SumInvariant ==
    Running =>
        /\ skip_depth + keep_depth = RunningSum(lines, i)
        /\ skip_depth + keep_depth = OpensSeen(lines, i) - EndsCounted(lines, i)

C19_Step ==
    /\ (InLoop /\ Kind(line) = "else")
          => skip_depth' + keep_depth' = skip_depth + keep_depth
    /\ (InLoop /\ Kind(line) = "other")
          => (skip_depth' = skip_depth /\ keep_depth' = keep_depth)

C19_Conservation == []C19_SumInvariant /\ [][C19_Step]_vars

\* Two opens, an else that moved a unit between the counters, one end counted
\* and a stray end not counted.
C19_Witness ==
    /\ pc = "loop"
    /\ pass = 1
    /\ i = 6
    /\ Kind(lines[1]) = "end"
    /\ Kind(lines[2]) = "open_discard"
    /\ Kind(lines[3]) = "open_retain"
    /\ Kind(lines[4]) = "else"
    /\ Kind(lines[5]) = "other"
    /\ Kind(lines[6]) = "end"
    /\ skip_depth + keep_depth = 1

----------------------------------------------------------------------------
(* C16: the filter is total and terminates.  Every iteration of the loop    *)
(* examines the current line and moves to the next one, the program is      *)
(* never stuck before the last return, every call of process_file returns,  *)
(* and after an open-discard directive that no later else or end directive  *)
(* closes, no later line is in the returned output.                         *)
C16_Step == InLoop => (i' = i + 1 /\ lines' = lines /\ pc' = "loop")

NeverClosed(ls, n) ==
    /\ Kind(ls[n]) = "open_discard"
    /\ \A m \in (n + 1)..Len(ls) : Kind(ls[m]) \notin {"else", "end"}

C16_State ==
    /\ (pc = "returned" /\ pass = 2) \/ ENABLED <<Next>>_vars
    /\ pc = "returned" =>
          /\ i = Len(lines)
          /\ \A n \in 1..Len(lines) :
                NeverClosed(lines, n) => \A k \in 1..Len(emitted) : emitted[k] < n - 1

----------------------------------------------------------------------------
(* The console of a run. *)

Events(kind) == {k \in 1..Len(console) : console[k].event = kind}

ModifiedLines == Cardinality(Events("modified"))

\* Found(n), then one Modified line per written file, then the closing lines.
ConsoleIs(closing) ==
    /\ Len(console) = 1 + modified_count + Len(closing)
    /\ console[1] = Found(Len(files_to_process))
    /\ \A k \in 2..(1 + modified_count) :
          /\ console[k].event = "modified"
          /\ console[k].path \in writes
          /\ \A j \in 2..(1 + modified_count) : j # k => console[j] # console[k]
    /\ modified_count = Cardinality(writes)
    /\ SubSeq(console, 2 + modified_count, Len(console)) = closing

C11_Step ==
    /\ console' # console =>
          \/ /\ console = <<>>
             /\ console' = <<Found(Len(files_to_process))>>
             /\ walk_todo = <<>>
             /\ files_to_process' = files_to_process
             /\ writes = {}
          \/ /\ console # <<>>
             /\ console' = Append(console, Modified(filepath))
             /\ filepath \in writes' /\ filepath \notin writes
             /\ ReadLines(fs'[filepath]) = output_lines
             /\ reads' = reads
          \/ /\ console' = console \o <<Summary(Cardinality(writes)), Complete>>
             /\ next_file = Len(files_to_process)
             /\ pc' = "done"
    /\ writes' # writes => (console # <<>> /\ console' = Append(console, Modified(filepath)))
    /\ reads' # reads => (console # <<>> /\ ModifiedLines = Cardinality(writes))
    /\ pc' = "done" => ConsoleIs(<<Summary(modified_count), Complete>>)'

(* C11 as amended: in every run that completes the console holds, in this   *)
(* order, the found-count line with the number of candidates, printed once  *)
(* the walk is over and before any write; one Modified line per overwritten *)
(* file, printed with that file's write and before the next file is read;   *)
(* the summary line with the number of files overwritten; and last the      *)
(* fixed line "OpenGL code removal complete!".                              *)
C11_ConsoleOrder == [][C11_Step]_vars

(* C11 as stated: when the run has completed, the console is the            *)
(* found-count line, the Modified lines and, as its final line, the         *)
(* summary line.                                                            *)
C11_SummaryIsFinalLine == pc = "done" => ConsoleIs(<<Summary(modified_count)>>)

\* A run has completed in which two of the four candidates were overwritten.
C11_Witness ==
    /\ pc = "done"
    /\ ModifiedLines = 2
    /\ Len(files_to_process) = 4
    /\ console[Len(console) - 1] = Summary(2)

(* C17: each file's pass starts with both counters at 0 and an empty        *)
(* output, and what process_file returns for a file is a function of that   *)
(* file's own lines: the filter applied to them from counters 0, whatever   *)
(* files came before and whatever the counters were when the previous pass  *)
(* ended.                                                                   *)
C17_FilesIndependent ==
    /\ (pc = "loop" /\ i = 0) =>
          (skip_depth = 0 /\ keep_depth = 0 /\ output_lines = <<>> /\ lines = original_lines)
    /\ pc = "returned" => output_lines = FilterLines(original_lines)

\* The pass of a file is about to start after the pass of the previous file,
\* which was rewritten, ended inside an unclosed discard region.
C17_Witness ==
    /\ pc = "call"
    /\ next_file >= 2
    /\ skip_depth > 0
    /\ files_to_process[next_file - 1] \in writes
    /\ fs[filepath] # UnclosedContent

Failed == Events("traceback") # {}

C18_Step ==
    /\ ~Failed
    /\ Failed' =>
          /\ pc' = "aborted"
          /\ \A p \in writes : fs'[p] = fs[p]
          /\ modified_count' = modified_count
          /\ reads' = reads

(* C18: once an open or a write of a candidate file has failed, the run is  *)
(* over: the program takes no further step, so no later candidate is read   *)
(* or written and no summary line is printed, and the failing step leaves   *)
(* every file rewritten before it as rewritten.                             *)
C18_FailureAborts ==
    /\ [](Failed => (pc = "aborted" /\ Events("summary") = {} /\ Events("complete") = {}))
    /\ [][C18_Step]_vars

\* A write failed after another candidate had been rewritten and reported, with
\* candidates still not processed.
C18_Witness ==
    /\ pc = "aborted"
    /\ Failed
    /\ ModifiedLines >= 1
    /\ next_file < Len(files_to_process)
    /\ \E p \in writes : p # filepath /\ FilterLines(ReadLines(fs[p])) = ReadLines(fs[p])
    /\ output_lines # original_lines
    /\ reads = {files_to_process[k] : k \in 1..next_file}

====
